---------------------------- MODULE Spec2Model ----------------------------
(***************************************************************************)
(* A model of the LinkHeader repository: the wire-faithful module          *)
(* link_header.py (parse, LinkHeader, Link, _Scanner) and the HAL-style    *)
(* module hal/__init__.py (Links, Link, LinksScanner).                     *)
(*                                                                         *)
(* A Python string is a sequence of one-character strings.  The regular    *)
(* expressions of the two modules are translated pattern by pattern into   *)
(* matchers anchored at the start of the buffer (re.match).                *)
(***************************************************************************)
EXTENDS Integers, Sequences, FiniteSets, TLC

VARIABLES
    orig,      \* the string the scanner was constructed with
    buf,       \* scanner.buf: the input not yet consumed
    match,     \* scanner.match: the result of the last scan
    matched,   \* history: the texts of the successful scans, in order
    kind,      \* which class the scanner is: "hal" (LinksScanner) or "lh" (_Scanner)
    src,       \* how the header under parse was produced (the expected links)
    pc,        \* position of parse() in its loops
    href,      \* parse(): the target of the link group being read
    attrs,     \* parse(): the attributes of the link group being read
    links,     \* parse(): the Link objects built so far
    err,       \* the exception the call ended with, NoError while there is none
    heap,      \* the hal.Link objects alive: heap[id] is the object's _dict
    coll,      \* the hal.Links object: whether it exists, and its _links
    ret,       \* what the last call returned
    op,        \* the last call made: <<name, argument>>
    overwrote  \* history: an insertion replaced the Link stored under its key

scanVars == <<orig, buf, match, matched, kind>>
parseVars == <<src, pc, href, attrs, links, err>>

objVars == <<heap, coll, ret, op, overwrote>>

vars == <<scanVars, parseVars, objVars>>

----------------------------------------------------------------------------
(* Characters and strings *)

SP == " "
DQ == "\""
BS == "\\"
NL == "\n"

\* The characters the class [^()<>@,;:\"\[\]?={}\s] of TOKEN excludes.  In the
\* raw Python literal \" is a double quote, so the backslash itself is NOT
\* excluded.  \s is the whitespace class.
Whitespace == {" ", "\t", "\n", "\r", "\f"}

TokenExcluded ==
    {"(", ")", "<", ">", "@", ",", ";", ":", "\"", "[", "]", "?", "=", "{", "}"}
        \cup Whitespace

IsTokenChar(c) == c \notin TokenExcluded

\* The character classes the patterns repeat: ' ', [^>] and TOKEN's class.
InClass(cls, c) ==
    CASE cls = "space" -> c = SP
      [] cls = "notgt" -> c # ">"
      [] cls = "token" -> IsTokenChar(c)

\* First index j >= i at which the run of characters of class cls stops
\* (Len(s)+1 when it runs to the end): a greedy X* starting at i.
RunEnd(s, i, cls) ==
    CHOOSE j \in i..(Len(s) + 1) :
        /\ \A k \in i..(j - 1) : InClass(cls, s[k])
        /\ (j = Len(s) + 1 \/ ~InClass(cls, s[j]))

At(s, i, c) == i <= Len(s) /\ s[i] = c

Drop(s, n) == SubSeq(s, n + 1, Len(s))

RECURSIVE Concat(_)
Concat(ss) == IF ss = <<>> THEN <<>> ELSE Head(ss) \o Concat(Tail(ss))

\* All strings over alphabet A of length at most n.
RECURSIVE StringsUpTo(_, _)
StringsUpTo(A, n) ==
    IF n = 0 THEN {<<>>}
    ELSE LET shorter == StringsUpTo(A, n - 1)
         IN  shorter \cup {Append(s, c) : s \in shorter, c \in A}

----------------------------------------------------------------------------
(* Match objects.  A group that did not take part in the match is None      *)
(* in Python: [some |-> FALSE].                                             *)

NoGroup == [some |-> FALSE, s |-> <<>>]
Group(s) == [some |-> TRUE, s |-> s]

NoMatch == [ok |-> FALSE, end |-> 0, g1 |-> NoGroup, g3 |-> NoGroup, g4 |-> NoGroup]
Matched(n, a, b, c) == [ok |-> TRUE, end |-> n, g1 |-> a, g3 |-> b, g4 |-> c]

\* The body of QUOTED, (?:[^"\\]|\\.)* started at index i: each iteration
\* takes one character that is neither a quote nor a backslash, or a backslash
\* and the character after it ('.' does not match a newline).  The two
\* alternatives exclude each other, so backtracking finds nothing the greedy
\* scan does not.
RECURSIVE QuotedBodyEnd(_, _)
QuotedBodyEnd(s, i) ==
    IF i > Len(s) THEN i
    ELSE IF s[i] = DQ THEN i
    ELSE IF s[i] = BS
         THEN IF i + 1 <= Len(s) /\ s[i + 1] # NL
              THEN QuotedBodyEnd(s, i + 2)
              ELSE i
    ELSE QuotedBodyEnd(s, i + 1)

\* link_header.HREF:  ' *< *([^>]*) *> *;? *'
MatchHREF(s) ==
    LET i1 == RunEnd(s, 1, "space")
    IN  IF ~At(s, i1, "<") THEN NoMatch
        ELSE LET i2 == RunEnd(s, i1 + 1, "space")
                 i3 == RunEnd(s, i2, "notgt")
             IN  IF ~At(s, i3, ">") THEN NoMatch
                 ELSE LET i4 == RunEnd(s, i3 + 1, "space")
                          i5 == IF At(s, i4, ";") THEN i4 + 1 ELSE i4
                          i6 == RunEnd(s, i5, "space")
                      IN  Matched(i6 - 1, Group(SubSeq(s, i2, i3 - 1)),
                                  NoGroup, NoGroup)

\* hal.RE_COMMA_HREF:  ' *,? *< *([^>]*) *> *'
MatchCOMMA_HREF(s) ==
    LET i0 == RunEnd(s, 1, "space")
        ic == IF At(s, i0, ",") THEN i0 + 1 ELSE i0
        i1 == RunEnd(s, ic, "space")
    IN  IF ~At(s, i1, "<") THEN NoMatch
        ELSE LET i2 == RunEnd(s, i1 + 1, "space")
                 i3 == RunEnd(s, i2, "notgt")
             IN  IF ~At(s, i3, ">") THEN NoMatch
                 ELSE LET i4 == RunEnd(s, i3 + 1, "space")
                      IN  Matched(i4 - 1, Group(SubSeq(s, i2, i3 - 1)),
                                  NoGroup, NoGroup)

\* ATTR / RE_ATTR:  'TOKEN *= *(TOKEN|QUOTED) *'
\* group 1 the name, group 3 the token value, group 4 the quoted body.
MatchATTR(s) ==
    LET i1 == RunEnd(s, 1, "token")
        i2 == RunEnd(s, i1, "space")
    IN  IF i1 = 1 \/ ~At(s, i2, "=") THEN NoMatch
        ELSE LET i3 == RunEnd(s, i2 + 1, "space")
             IN  IF i3 <= Len(s) /\ IsTokenChar(s[i3])
                 THEN LET i4 == RunEnd(s, i3, "token")
                      IN  Matched(RunEnd(s, i4, "space") - 1,
                                  Group(SubSeq(s, 1, i1 - 1)),
                                  Group(SubSeq(s, i3, i4 - 1)), NoGroup)
                 ELSE IF At(s, i3, DQ)
                 THEN LET q == QuotedBodyEnd(s, i3 + 1)
                      IN  IF ~At(s, q, DQ) THEN NoMatch
                          ELSE Matched(RunEnd(s, q + 1, "space") - 1,
                                       Group(SubSeq(s, 1, i1 - 1)),
                                       NoGroup, Group(SubSeq(s, i3 + 1, q - 1)))
                 ELSE NoMatch

\* SEMI / RE_SEMI:  '; *'
MatchSEMI(s) ==
    IF ~At(s, 1, ";") THEN NoMatch
    ELSE Matched(RunEnd(s, 2, "space") - 1, NoGroup, NoGroup, NoGroup)

\* COMMA / RE_COMMA:  ', *'
MatchCOMMA(s) ==
    IF ~At(s, 1, ",") THEN NoMatch
    ELSE Matched(RunEnd(s, 2, "space") - 1, NoGroup, NoGroup, NoGroup)

\* hal.RE_ONLY_TOKEN.match(value):  '^TOKEN$'.  Python's '$' matches at the
\* end of the string and also just before a newline that ends the string.
OnlyToken(s) ==
    LET i == RunEnd(s, 1, "token")
    IN  /\ i > 1
        /\ \/ i = Len(s) + 1
           \/ (i = Len(s) /\ s[i] = NL)

\* pattern.match(buf) for the compiled patterns of the two modules.
PatternMatch(pattern, s) ==
    CASE pattern = "HREF"       -> MatchHREF(s)
      [] pattern = "COMMA_HREF" -> MatchCOMMA_HREF(s)
      [] pattern = "ATTR"       -> MatchATTR(s)
      [] pattern = "SEMI"       -> MatchSEMI(s)
      [] pattern = "COMMA"      -> MatchCOMMA(s)

LHPatterns  == {"HREF", "ATTR", "SEMI", "COMMA"}
HalPatterns == {"COMMA_HREF", "ATTR", "SEMI", "COMMA"}

----------------------------------------------------------------------------
(* The scanner: LinksScanner (hal) and _Scanner (link_header) *)

\* A scan that moves the cursor whether or not the pattern matched.
ScanBufAlways(b, m) == Drop(b, IF m.ok THEN m.end ELSE 1)

\* self.buf after scan: buf[match.end():] on a match, untouched otherwise.
ScanBuf(b, m) == IF m.ok THEN Drop(b, m.end) ELSE b

\* scan(pattern): self.match = pattern.match(self.buf), then the cursor.
DoScan(pattern) ==
    LET m == PatternMatch(pattern, buf)
    IN  /\ match' = m
        /\ buf' = ScanBuf(buf, m)
        /\ matched' = IF m.ok THEN Append(matched, SubSeq(buf, 1, m.end))
                      ELSE matched

ScannerInit(k, s) ==
    /\ kind = k
    /\ orig = s
    /\ buf = s
    /\ match = NoMatch
    /\ matched = <<>>

NoError == <<"none", <<>>>>
Raised(exc, arg) == <<exc, arg>>

\* Python's None, a str and a list of str as values of one shape.
None == [k |-> "none", s |-> <<>>, l |-> <<>>]
Str(s) == [k |-> "str", s |-> s, l |-> <<>>]
List(l) == [k |-> "list", s |-> <<>>, l |-> l]

NoLinks == [made |-> FALSE, links |-> <<>>]

\* No hal object exists.
ObjIdle ==
    /\ heap = <<>>
    /\ coll = NoLinks
    /\ ret = None
    /\ op = <<"none", 0>>
    /\ overwrote = FALSE

\* The variables of parse() while only a scanner is exercised.
ParseIdle ==
    /\ src = [mode |-> "scan", groups |-> <<>>, sep |-> <<>>]
    /\ pc = "idle"
    /\ href = <<>>
    /\ attrs = <<>>
    /\ links = <<>>
    /\ err = NoError

LinksScanner_scan ==
    /\ kind = "hal"
    /\ pc = "idle"
    /\ \E p \in HalPatterns : DoScan(p)
    /\ UNCHANGED <<orig, kind, parseVars, objVars>>

Scanner_scan ==
    /\ kind = "lh"
    /\ pc = "idle"
    /\ \E p \in LHPatterns : DoScan(p)
    /\ UNCHANGED <<orig, kind, parseVars, objVars>>

\* Scanner inputs: every string over ScanAlphabet up to ScanLen characters.
ScanLen == 4
ScanAlphabet == {"<", ">", ";", ",", "=", SP, DQ, "a"}

InitScan ==
    /\ \E k \in {"hal", "lh"}, s \in StringsUpTo(ScanAlphabet, ScanLen) :
            ScannerInit(k, s)
    /\ ParseIdle
    /\ ObjIdle

NextScan == LinksScanner_scan \/ Scanner_scan

SpecScan == InitScan /\ [][NextScan]_vars

\* C10: the remaining input is always a suffix of the original input, and the
\* original input is the successful matches, in order, followed by the
\* remaining input: a successful scan removes exactly its match, a failed
\* scan removes nothing.
C10_CursorAccounting ==
    /\ Len(buf) <= Len(orig)
    /\ buf = Drop(orig, Len(orig) - Len(buf))
    /\ orig = Concat(matched) \o buf

\* Two scans matched, then one failed with input still unread.
C10_Witness ==
    /\ pc = "idle"
    /\ Len(matched) >= 2
    /\ ~match.ok
    /\ buf # <<>>

----------------------------------------------------------------------------
(* link_header.py: Link, LinkHeader, parse *)

\* value.replace('"', r'\"'): every double quote becomes backslash-quote.
RECURSIVE EscapeQuotes(_)
EscapeQuotes(s) ==
    IF s = <<>> THEN <<>>
    ELSE IF Head(s) = DQ THEN <<BS, DQ>> \o EscapeQuotes(Tail(s))
    ELSE <<Head(s)>> \o EscapeQuotes(Tail(s))

\* quoted.replace(r'\"', '"'): every backslash-quote, found left to right
\* without overlap, becomes a double quote.
RECURSIVE UnescapeQuotes(_)
UnescapeQuotes(s) ==
    IF s = <<>> THEN <<>>
    ELSE IF Len(s) >= 2 /\ s[1] = BS /\ s[2] = DQ
         THEN <<DQ>> \o UnescapeQuotes(Drop(s, 2))
    ELSE <<Head(s)>> \o UnescapeQuotes(Tail(s))

\* separator.join(parts)
RECURSIVE Join(_, _)
Join(sep, parts) ==
    IF parts = <<>> THEN <<>>
    ELSE IF Len(parts) = 1 THEN parts[1]
    ELSE parts[1] \o sep \o Join(sep, Tail(parts))

\* link_header.Link(href, attr_pairs): attr_pairs is a list of [name, value].
LHLink(h, pairs) == [href |-> h, attr_pairs |-> pairs]

\* link_header.Link.__str__: '<href>' then name="value" for each pair, the
\* value's double quotes escaped, joined with '; '.
LHLinkStr(link) ==
    Join(<<";", SP>>,
         <<(<<"<">> \o link.href \o <<">">>)>> \o
         [i \in 1..Len(link.attr_pairs) |->
             link.attr_pairs[i][1] \o <<"=", DQ>> \o
             EscapeQuotes(link.attr_pairs[i][2]) \o <<DQ>>])

\* link_header.LinkHeader.__str__: the links joined with ', '.
LinkHeaderStr(ls) ==
    Join(<<",", SP>>, [i \in 1..Len(ls) |-> LHLinkStr(ls[i])])

\* parse(), line 49: the third element of the tuple is
\* scanner[4].replace(r'\"', '"').  Group 4 is None when the value matched as
\* a token, and None has no replace method.
AttrRaises(m) == ~m.g4.some

\* parse(), lines 49-50: the value appended is 'token or quoted'.
AttrValue(m) ==
    LET token == m.g3
        quoted == UnescapeQuotes(m.g4.s)
    IN  IF token.some /\ token.s # <<>> THEN token.s ELSE quoted

\* A parse that goes on to the next link group whether or not a comma
\* separated it from the last.
AfterCommaAlways(m) == "href"

\* parse(), lines 54-55: 'if not scanner.scan(COMMA): break'.
AfterComma(m) == IF m.ok THEN "href" ELSE "done"

\* parse(), line 45: 'while scanner.scan(HREF)', and lines 46-47.
LH_ScanHref ==
    /\ pc = "href"
    /\ DoScan("HREF")
    /\ IF match'.ok
       THEN /\ href' = match'.g1.s
            /\ attrs' = <<>>
            /\ pc' = "attr"
       ELSE /\ pc' = "done"
            /\ UNCHANGED <<href, attrs>>
    /\ UNCHANGED <<orig, kind, src, links, err, objVars>>

\* parse(), line 48: 'while scanner.scan(ATTR)', and lines 49-50.
LH_ScanAttr ==
    /\ pc = "attr"
    /\ DoScan("ATTR")
    /\ IF ~match'.ok
       THEN /\ pc' = "comma"
            /\ UNCHANGED <<attrs, err>>
       ELSE IF AttrRaises(match')
       THEN /\ pc' = "raised"
            /\ err' = Raised("AttributeError", <<>>)
            /\ UNCHANGED attrs
       ELSE /\ attrs' = Append(attrs, <<match'.g1.s, AttrValue(match')>>)
            /\ pc' = "semi"
            /\ UNCHANGED err
    /\ UNCHANGED <<orig, kind, src, href, links, objVars>>

\* parse(), lines 51-52: 'if not scanner.scan(SEMI): break'.
LH_ScanSemi ==
    /\ pc = "semi"
    /\ DoScan("SEMI")
    /\ pc' = IF match'.ok THEN "attr" ELSE "comma"
    /\ UNCHANGED <<orig, kind, src, href, attrs, links, err, objVars>>

\* parse(), lines 53-55: the link is appended and the comma scanned.  At
\* "done" the call has returned LinkHeader(links).
LH_AppendLink ==
    /\ pc = "comma"
    /\ links' = Append(links, LHLink(href, attrs))
    /\ DoScan("COMMA")
    /\ pc' = AfterComma(match')
    /\ UNCHANGED <<orig, kind, src, href, attrs, err, objVars>>

NextLH == LH_ScanHref \/ LH_ScanAttr \/ LH_ScanSemi \/ LH_AppendLink

----------------------------------------------------------------------------
(* Headers to parse *)

MaxGroups == 2
RawLen == 4
MaxValLen == 2

RawAlphabet == {"<", ">", ";", ",", "=", SP, DQ, "a"}

Targets == {<<"a">>, <<"b">>}

REL   == <<"r", "e", "l">>
HREFN == <<"h", "r", "e", "f">>
TITLE == <<"t", "i", "t", "l", "e">>
SELF  == <<"s", "e", "l", "f">>

\* An attribute as written on the wire: its value is a token or a quoted string.
WireAttr(n, v, f) == [name |-> n, value |-> v, form |-> f]

QRelX    == WireAttr(REL, <<"x">>, "quoted")
QRelRel  == WireAttr(REL, REL, "quoted")
QRelNone == WireAttr(REL, <<>>, "quoted")
QTitle   == WireAttr(TITLE, <<"x", DQ, "y">>, "quoted")
QSelf    == WireAttr(SELF, <<"x">>, "quoted")
TRelY    == WireAttr(REL, <<"y">>, "token")

WireAttrLists ==
    { <<>>, <<QRelX>>, <<QRelRel>>, <<QRelNone>>, <<TRelY>>, <<QSelf>>,
      <<QRelX, QTitle>>, <<QTitle, QRelX>>, <<QTitle, TRelY>> }

WireGroups == [target : Targets, attrs : WireAttrLists]

\* Between two link groups: a comma or nothing; between attributes: ';'.
Separators ==
    { [g |-> <<",">>,     a |-> <<";">>,     comma |-> TRUE],
      [g |-> <<",", SP>>, a |-> <<";", SP>>, comma |-> TRUE],
      [g |-> <<>>,        a |-> <<";">>,     comma |-> FALSE],
      [g |-> <<SP>>,      a |-> <<";", SP>>, comma |-> FALSE] }

RECURSIVE SeqsUpTo(_, _)
SeqsUpTo(S, n) ==
    IF n = 0 THEN {<<>>}
    ELSE LET shorter == SeqsUpTo(S, n - 1)
         IN  shorter \cup {Append(q, x) : q \in shorter, x \in S}

WireAttrText(a) ==
    a.name \o <<"=">> \o
    (IF a.form = "token" THEN a.value ELSE <<DQ>> \o EscapeQuotes(a.value) \o <<DQ>>)

WireGroupText(g, sep) ==
    <<"<">> \o g.target \o <<">">> \o
    Concat([i \in 1..Len(g.attrs) |-> sep.a \o WireAttrText(g.attrs[i])])

WireText(gs, sep) == Join(sep.g, [i \in 1..Len(gs) |-> WireGroupText(gs[i], sep)])

\* The links a header written from these groups stands for.
ExpectedLinks(gs) ==
    [i \in 1..Len(gs) |->
        LHLink(gs[i].target,
               [j \in 1..Len(gs[i].attrs) |->
                   <<gs[i].attrs[j].name, gs[i].attrs[j].value>>])]

AllQuoted(gs) ==
    \A i \in 1..Len(gs) : \A j \in 1..Len(gs[i].attrs) : gs[i].attrs[j].form = "quoted"

ParseStart(k, first, source, text) ==
    /\ ScannerInit(k, text)
    /\ ObjIdle
    /\ src = source
    /\ pc = first
    /\ href = <<>>
    /\ attrs = <<>>
    /\ links = <<>>
    /\ err = NoError

\* parse(header) on an arbitrary string.
InitRaw(k, first) ==
    \E s \in StringsUpTo(RawAlphabet, RawLen) :
        ParseStart(k, first, [mode |-> "raw", groups |-> <<>>, sep |-> <<>>], s)

\* parse(header) on a header written group by group.
InitWire(k, first) ==
    \E gs \in SeqsUpTo(WireGroups, MaxGroups) \ {<<>>}, sep \in Separators :
        ParseStart(k, first, [mode |-> "wire", groups |-> gs, sep |-> sep],
                   WireText(gs, sep))

InitLH == InitRaw("lh", "href") \/ InitWire("lh", "href")

SpecLH == InitLH /\ [][NextLH]_vars

\* LinkHeader objects built programmatically: string targets, string
\* attribute names and values, the values over {x, ", \}.
BuiltValues == StringsUpTo({"x", DQ, BS}, MaxValLen)

BuiltAttrLists ==
    {<<>>} \cup {<< <<REL, v>> >> : v \in BuiltValues}
           \cup {<< <<REL, v>>, <<TITLE, <<"x">>>> >> : v \in BuiltValues}

BuiltLinks == {LHLink(t, ps) : t \in Targets, ps \in BuiltAttrLists}

\* parse(str(header)) for a header built programmatically.
InitRT ==
    \E ls \in SeqsUpTo(BuiltLinks, MaxGroups) :
        ParseStart("lh", "href", [mode |-> "built", groups |-> ls, sep |-> <<>>],
                   LinkHeaderStr(ls))

SpecRT == InitRT /\ [][NextLH]_vars

\* C2: parse(str(header)) has the links of the header it was formatted from
\* (same targets, same attribute pairs in the same order), so formatting it
\* again gives the same string.
C2_RoundTrip ==
    (src.mode = "built" /\ pc \in {"done", "raised"}) =>
        /\ pc = "done"
        /\ links = src.groups
        /\ LinkHeaderStr(links) = orig

\* C5: link_header.parse raises no error, whatever the input; it returns the
\* links parsed so far and drops what it could not match.
C5_LenientNeverRaises ==
    kind = "lh" => (pc # "raised" /\ err = NoError)

\* C6: one link followed by name=value pairs, each value a token or a quoted
\* string: parse returns exactly that link, its pairs in encounter order.
C6_AttributeIngestion ==
    (src.mode = "wire" /\ Len(src.groups) = 1 /\ pc \in {"done", "raised"}) =>
        /\ pc = "done"
        /\ links = ExpectedLinks(src.groups)

\* C7 as stated: n link groups with quoted-string attributes give n links in
\* input order, comma-separated or juxtaposed.
C7_MultiLinkAnySeparator ==
    (src.mode = "wire" /\ AllQuoted(src.groups) /\ pc \in {"done", "raised"}) =>
        /\ pc = "done"
        /\ links = ExpectedLinks(src.groups)

\* C7 amended: n link groups with quoted-string attributes give n links in
\* input order when a comma separates consecutive groups; juxtaposed with no
\* comma, parse stops after the first group and returns that link alone.
C7_MultiLinkCommaOnly ==
    (src.mode = "wire" /\ AllQuoted(src.groups)) =>
        /\ pc # "raised"
        /\ pc = "done" =>
            links = IF src.sep.comma THEN ExpectedLinks(src.groups)
                    ELSE <<ExpectedLinks(src.groups)[1]>>

\* Two comma-separated groups, each with attributes, parsed to two links.
C7_Witness ==
    /\ src.mode = "wire"
    /\ pc = "done"
    /\ src.sep.comma
    /\ Len(src.groups) = 2
    /\ AllQuoted(src.groups)
    /\ \A i \in 1..2 : Len(src.groups[i].attrs) = 2
    /\ src.groups[1].target # src.groups[2].target
    /\ Len(links) = 2

----------------------------------------------------------------------------
(* hal/__init__.py: Link *)

\* A dict is a function from its keys; the empty dict is the empty function.
EmptyDict == <<>>
DictSet(d, key, v) == [x \in DOMAIN d \cup {key} |-> IF x = key THEN v ELSE d[x]]
DictGet(d, key) == IF key \in DOMAIN d THEN d[key] ELSE None
DictWithout(d, key) == [x \in DOMAIN d \ {key} |-> d[x]]

TYPE         == <<"t", "y", "p", "e">>
ANCHOR       == <<"a", "n", "c", "h", "o", "r">>
REV          == <<"r", "e", "v">>
MEDIA        == <<"m", "e", "d", "i", "a">>
HREFLANG     == <<"h", "r", "e", "f", "l", "a", "n", "g">>
TITLE_STAR   == <<"t", "i", "t", "l", "e", "*">>
CONTENT_TYPE == <<"c", "o", "n", "t", "e", "n", "t", "_", "t", "y", "p", "e">>
CONTENT_DASH == <<"c", "o", "n", "t", "e", "n", "t", "-", "t", "y", "p", "e">>

SINGLE_VALUED_ATTRS == {REL, ANCHOR, REV, MEDIA, TITLE, TYPE, HREFN}
MULTI_VALUED_ATTRS  == {HREFLANG, TITLE_STAR}
STANDARD_ATTRS      == SINGLE_VALUED_ATTRS \cup MULTI_VALUED_ATTRS

\* bool(value): None, '' and [] are false.
Truthy(v) == (v.k = "str" /\ v.s # <<>>) \/ (v.k = "list" /\ v.l # <<>>)

\* a or b
Or(a, b) == IF Truthy(a) THEN a ELSE b

\* len(value) and value[0] of a str or a list of str.
PyLen(v) == IF v.k = "str" THEN Len(v.s) ELSE Len(v.l)
PyFirst(v) == IF v.k = "str" THEN Str(<<v.s[1]>>) ELSE Str(v.l[1])

\* Link.__init__(href, rel, **data): the _dict of the new object.
LinkInit(hrefArg, relArg, data) ==
    LET h == Or(hrefArg, DictGet(data, HREFN))
        r == Or(relArg, DictGet(data, REL))
    IN  DictSet(DictSet(data, REL, r), HREFN, h)

\* str.lower() and str.replace('_', '-'), character by character.
LowerChar(c) ==
    CASE c = "A" -> "a" [] c = "B" -> "b" [] c = "C" -> "c" [] c = "D" -> "d"
      [] c = "E" -> "e" [] c = "F" -> "f" [] c = "G" -> "g" [] c = "H" -> "h"
      [] c = "I" -> "i" [] c = "J" -> "j" [] c = "K" -> "k" [] c = "L" -> "l"
      [] c = "M" -> "m" [] c = "N" -> "n" [] c = "O" -> "o" [] c = "P" -> "p"
      [] c = "Q" -> "q" [] c = "R" -> "r" [] c = "S" -> "s" [] c = "T" -> "t"
      [] c = "U" -> "u" [] c = "V" -> "v" [] c = "W" -> "w" [] c = "X" -> "x"
      [] c = "Y" -> "y" [] c = "Z" -> "z" [] OTHER -> c
Lower(s) == [i \in 1..Len(s) |-> LowerChar(s[i])]
Dashes(s) == [i \in 1..Len(s) |-> IF s[i] = "_" THEN "-" ELSE s[i]]

\* Link.__getattr__, lines 185-186: the name looked up.
GetAttrName(key) ==
    LET attr == Dashes(Lower(key))
    IN  IF attr # CONTENT_DASH THEN attr ELSE TYPE

\* __getattr__ without the multi-valued test of line 192.
ReadStoredNoMulti(attr, retval) ==
    IF ~Truthy(retval) \/ PyLen(retval) > 1 THEN retval ELSE PyFirst(retval)

\* Link.__getattr__, lines 191-194: what is returned for a recognized name.
ReadStored(attr, retval) ==
    IF ~Truthy(retval) \/ PyLen(retval) > 1 \/ attr \in MULTI_VALUED_ATTRS
    THEN retval
    ELSE PyFirst(retval)

\* Link.__getattr__(key) on an object whose _dict is d.
GetAttr(d, key) ==
    LET attr == GetAttrName(key)
    IN  IF attr \notin STANDARD_ATTRS
        THEN [raised |-> TRUE, value |-> None]
        ELSE [raised |-> FALSE, value |-> ReadStored(attr, DictGet(d, attr))]

\* Link.__setattr__(key, value): the _dict afterwards.
SetAttr(d, key, v) ==
    LET k2 == IF key # CONTENT_TYPE THEN key ELSE TYPE
    IN  DictSet(d, Dashes(k2), v)

\* Link.to_py(): (pairs.pop('rel'), pairs) on a copy of _dict.
LinkToPy(d) == [rel |-> d[REL], attrs |-> DictWithout(d, REL)]

\* Link.str_pair(key, value)
StrPair(key, value) ==
    IF OnlyToken(value) \/ (key # <<>> /\ key[Len(key)] = "*")
    THEN key \o <<"=">> \o value
    ELSE key \o <<"=", DQ>> \o EscapeQuotes(value) \o <<DQ>>

----------------------------------------------------------------------------
(* hal/__init__.py: Links *)

\* An element handed to Links.update: a Link (has rel and href: its reference
\* and the value its rel attribute reads as), or some other object.
Item(ref, rel) == [isLink |-> TRUE, ref |-> ref, rel |-> rel]
NotALink == [isLink |-> FALSE, ref |-> 0, rel |-> None]

\* Links.update(links), lines 114-117, on the _links dict c.  The assertion
\* tests the literal key 'rel'.  raised: the assertion failed (the items
\* before it stay inserted); overwrote: some insertion replaced the Link
\* stored under its key by another Link.
RECURSIVE Update(_, _)
Update(c, items) ==
    IF items = <<>> THEN [links |-> c, raised |-> FALSE, overwrote |-> FALSE]
    ELSE IF ~items[1].isLink THEN Update(c, Tail(items))
    ELSE IF Str(REL) \in DOMAIN c
         THEN [links |-> c, raised |-> TRUE, overwrote |-> FALSE]
    ELSE LET r == Update(DictSet(c, items[1].rel, items[1].ref), Tail(items))
         IN  [r EXCEPT !.overwrote = r.overwrote \/
                                    (/\ items[1].rel \in DOMAIN c
                                     /\ c[items[1].rel] # items[1].ref)]

----------------------------------------------------------------------------
(* hal/__init__.py: Links.parse *)

\* Link(**attrs): href and rel are the named parameters, the rest is **data;
\* a key 'self' collides with the method's first parameter (TypeError).
LinkFromAttrs(as) ==
    LinkInit(DictGet(as, HREFN), DictGet(as, REL),
             DictWithout(DictWithout(as, HREFN), REL))

\* Links.parse, line 129: quot.replace(r'\"', '"') if quot else token.
HalAttrValue(m) ==
    IF m.g4.some /\ m.g4.s # <<>> THEN Str(UnescapeQuotes(m.g4.s))
    ELSE IF m.g3.some THEN Str(m.g3.s) ELSE None

\* Links.parse, line 132: 'if scanner.buf: raise LinkError'.
ParseEndRaises(b) == b # <<>>

\* Links.parse, line 124: 'while header and scanner.scan(RE_COMMA_HREF)',
\* and line 125.  An empty header is not scanned at all.
Hal_ScanHref ==
    /\ pc = "href"
    /\ IF orig = <<>>
       THEN /\ pc' = "end"
            /\ UNCHANGED <<buf, match, matched, attrs>>
       ELSE /\ DoScan("COMMA_HREF")
            /\ IF match'.ok
               THEN /\ attrs' = DictSet(EmptyDict, HREFN, Str(match'.g1.s))
                    /\ pc' = "semi"
               ELSE /\ pc' = "end"
                    /\ UNCHANGED attrs
    /\ UNCHANGED <<orig, kind, src, href, links, err, objVars>>

\* Links.parse, line 126: 'while scanner.scan(RE_SEMI)'; when it fails,
\* line 131: links.append(Link(**attrs)).
Hal_ScanSemi ==
    /\ pc = "semi"
    /\ DoScan("SEMI")
    /\ IF match'.ok
       THEN /\ pc' = "attr"
            /\ UNCHANGED <<links, err>>
       ELSE IF SELF \in DOMAIN attrs
       THEN /\ pc' = "raised"
            /\ err' = Raised("TypeError", <<>>)
            /\ UNCHANGED links
       ELSE /\ links' = Append(links, LinkFromAttrs(attrs))
            /\ pc' = "href"
            /\ UNCHANGED err
    /\ UNCHANGED <<orig, kind, src, href, attrs, objVars>>

\* Links.parse, lines 127-129: 'if scanner.scan(RE_ATTR)'.
Hal_ScanAttr ==
    /\ pc = "attr"
    /\ DoScan("ATTR")
    /\ attrs' = IF match'.ok
                THEN DictSet(attrs, match'.g1.s, HalAttrValue(match'))
                ELSE attrs
    /\ pc' = "semi"
    /\ UNCHANGED <<orig, kind, src, href, links, err, objVars>>

\* Links.parse, lines 132-136: raise LinkError on leftover input, else
\* return Links(links), whose constructor runs update(links).
Hal_ParseEnd ==
    /\ pc = "end"
    /\ IF ParseEndRaises(buf)
       THEN /\ pc' = "raised"
            /\ err' = Raised("LinkError", buf)
            /\ UNCHANGED <<coll, overwrote>>
       ELSE LET r == Update(EmptyDict,
                            [i \in 1..Len(links) |->
                                Item(i, GetAttr(links[i], REL).value)])
            IN  /\ overwrote' = r.overwrote
                /\ IF r.raised
                   THEN /\ pc' = "raised"
                        /\ err' = Raised("AssertionError", <<>>)
                        /\ UNCHANGED coll
                   ELSE /\ pc' = "done"
                        /\ coll' = [made |-> TRUE, links |-> r.links]
                        /\ UNCHANGED err
    /\ UNCHANGED <<scanVars, src, href, attrs, links, heap, ret, op>>

NextHalParse == Hal_ScanHref \/ Hal_ScanSemi \/ Hal_ScanAttr \/ Hal_ParseEnd

InitHalParse == InitRaw("hal", "href") \/ InitWire("hal", "href")

SpecHalParse == InitHalParse /\ [][NextHalParse]_vars

\* C4: Links.parse either consumes the whole input and returns a Links
\* collection, or fails with a LinkError carrying the unconsumed remainder;
\* it never returns while input remains.
C4_StrictParse ==
    (kind = "hal" /\ pc \in {"done", "raised"}) =>
        IF buf = <<>>
        THEN pc = "done" /\ coll.made
        ELSE pc = "raised" /\ err = Raised("LinkError", buf)

----------------------------------------------------------------------------
(* hal.Link.str_pair on its own *)

FmtLen == 3
FmtAlphabet == {"a", SP, ",", DQ, BS, NL}
FmtKeys == {TITLE, TITLE_STAR}

InitFmt ==
    /\ \E key \in FmtKeys, value \in StringsUpTo(FmtAlphabet, FmtLen) :
           src = [mode |-> "str_pair", groups |-> <<key, value>>, sep |-> <<>>]
    /\ ScannerInit("hal", <<>>)
    /\ pc = "call"
    /\ href = <<>>
    /\ attrs = <<>>
    /\ links = <<>>
    /\ err = NoError
    /\ ObjIdle

\* Link.str_pair(key, value) is called and returns.
Link_str_pair ==
    /\ pc = "call"
    /\ src.mode = "str_pair"
    /\ ret' = Str(StrPair(src.groups[1], src.groups[2]))
    /\ op' = <<"str_pair", 0>>
    /\ pc' = "done"
    /\ UNCHANGED <<scanVars, src, href, attrs, links, err, heap, coll, overwrote>>

NextFmt == Link_str_pair

SpecFmt == InitFmt /\ [][NextFmt]_vars

\* A token: a non-empty value with no separator or whitespace anywhere in it.
IsTokenValue(value) ==
    value # <<>> /\ \A i \in 1..Len(value) : IsTokenChar(value[i])

\* C3: str_pair gives name=value unquoted exactly when the value is a token
\* or the name ends with '*', and name="value" with every double quote
\* written as backslash-quote otherwise.
C3_TokenOrQuoted ==
    (op[1] = "str_pair" /\ pc = "done") =>
        LET key == src.groups[1]
            value == src.groups[2]
        IN  ret.s = IF IsTokenValue(value) \/ key[Len(key)] = "*"
                    THEN key \o <<"=">> \o value
                    ELSE key \o <<"=", DQ>> \o EscapeQuotes(value) \o <<DQ>>

----------------------------------------------------------------------------
(* hal objects: Link objects on a heap and one Links collection *)

MaxLinks == 2

Hrefs == {Str(<<"h">>), Str(<<"g">>)}
Rels  == {Str(<<"a">>), Str(<<"b">>), Str(REL)}

LinkIds == 1..Len(heap)

\* The Link objects a Links collection holds.
Held == {coll.links[k] : k \in DOMAIN coll.links}

\* What update() sees of each element of its argument: hasattr(link, 'rel')
\* and hasattr(link, 'href') hold of every Link, and link.rel is read through
\* __getattr__.
ItemsOf(ids) ==
    [i \in 1..Len(ids) |->
        IF ids[i] = 0 THEN NotALink
        ELSE Item(ids[i], GetAttr(heap[ids[i]], REL).value)]

\* The lists a caller may hand to Links() and update(): Links and other objects.
ItemLists == SeqsUpTo(LinkIds \cup {0}, MaxLinks)

\* dict(pairs): a later pair replaces an earlier one with the same key.
RECURSIVE DictFromPairs(_)
DictFromPairs(pairs) ==
    IF pairs = <<>> THEN EmptyDict
    ELSE LET n == Len(pairs)
         IN  DictSet(DictFromPairs(SubSeq(pairs, 1, n - 1)), pairs[n][1], pairs[n][2])

\* The orders in which a dict's values may be iterated.
Orders(S) ==
    {q \in [1..Cardinality(S) -> S] : \A i, j \in DOMAIN q : q[i] = q[j] => i = j}

\* Links.to_py() when _links is iterated in the given order of its keys.
LinksToPy(order) ==
    DictFromPairs([i \in 1..Len(order) |->
        LET p == LinkToPy(heap[coll.links[order[i]]])
        IN  <<p.rel, p.attrs>>])

InitObj ==
    /\ ScannerInit("hal", <<>>)
    /\ src = [mode |-> "objects", groups |-> <<>>, sep |-> <<>>]
    /\ pc = "objects"
    /\ href = <<>>
    /\ attrs = <<>>
    /\ links = <<>>
    /\ err = NoError
    /\ ObjIdle

ObjFrame == UNCHANGED <<scanVars, src, pc, href, attrs, links>>

\* Link(href, rel)
Link_init ==
    /\ pc = "objects"
    /\ Len(heap) < MaxLinks
    /\ \E h \in Hrefs, r \in Rels :
           /\ heap' = Append(heap, LinkInit(h, r, EmptyDict))
           /\ op' = <<"Link", 0>>
    /\ ret' = None
    /\ err' = NoError
    /\ UNCHANGED <<coll, overwrote>>
    /\ ObjFrame

\* Links(links): _links = {} and update(links).  When update raises, the
\* constructor raises and no collection exists.
Links_init ==
    /\ pc = "objects"
    /\ ~coll.made
    /\ \E ids \in ItemLists :
           LET r == Update(EmptyDict, ItemsOf(ids))
           IN  /\ coll' = IF r.raised THEN NoLinks
                          ELSE [made |-> TRUE, links |-> r.links]
               /\ err' = IF r.raised THEN Raised("AssertionError", <<>>) ELSE NoError
               /\ overwrote' = r.overwrote
               /\ op' = <<"Links", 0>>
    /\ ret' = None
    /\ UNCHANGED heap
    /\ ObjFrame

\* links.update(links): the insertions made before a failed assertion stay.
Links_update ==
    /\ pc = "objects"
    /\ coll.made
    /\ \E ids \in ItemLists :
           LET r == Update(coll.links, ItemsOf(ids))
           IN  /\ coll' = [made |-> TRUE, links |-> r.links]
               /\ err' = IF r.raised THEN Raised("AssertionError", <<>>) ELSE NoError
               /\ overwrote' = r.overwrote
               /\ op' = <<"update", 0>>
    /\ ret' = None
    /\ UNCHANGED heap
    /\ ObjFrame

\* link.rel = value, on any Link, held by the collection or not.
Link_setattr ==
    /\ pc = "objects"
    /\ \E id \in LinkIds, v \in Rels :
           /\ heap' = [heap EXCEPT ![id] = SetAttr(heap[id], REL, v)]
           /\ op' = <<"setattr", 0>>
    /\ ret' = None
    /\ err' = NoError
    /\ UNCHANGED <<coll, overwrote>>
    /\ ObjFrame

\* link.to_py()
Link_to_py ==
    /\ pc = "objects"
    /\ \E id \in LinkIds :
           /\ ret' = LinkToPy(heap[id])
           /\ op' = <<"Link.to_py", id>>
    /\ err' = NoError
    /\ UNCHANGED <<heap, coll, overwrote>>
    /\ ObjFrame

\* links.to_py(): the iteration order of _links is the interpreter's.
Links_to_py ==
    /\ pc = "objects"
    /\ coll.made
    /\ \E order \in Orders(DOMAIN coll.links) : ret' = LinksToPy(order)
    /\ op' = <<"Links.to_py", 0>>
    /\ err' = NoError
    /\ UNCHANGED <<heap, coll, overwrote>>
    /\ ObjFrame

\* What a call returns when it returns a Link object, and when it returns an int.
LinkRef(id) == [k |-> "ref", s |-> <<>>, l |-> <<id>>]
PyInt(n) == [k |-> "int", s |-> <<>>, l |-> <<n>>]

\* links.rel(r): _links.get(r, None)
Links_rel ==
    /\ pc = "objects"
    /\ coll.made
    /\ \E r \in Rels :
           /\ ret' = IF r \in DOMAIN coll.links THEN LinkRef(coll.links[r]) ELSE None
           /\ op' = <<"Links.rel", r>>
    /\ err' = NoError
    /\ UNCHANGED <<heap, coll, overwrote>>
    /\ ObjFrame

\* len(links): len(_links)
Links_len ==
    /\ pc = "objects"
    /\ coll.made
    /\ ret' = PyInt(Cardinality(DOMAIN coll.links))
    /\ op' = <<"Links.len", 0>>
    /\ err' = NoError
    /\ UNCHANGED <<heap, coll, overwrote>>
    /\ ObjFrame

Next ==
    \/ Link_init
    \/ Links_init
    \/ Links_update
    \/ Link_setattr
    \/ Link_to_py
    \/ Links_to_py
    \/ Links_rel
    \/ Links_len

Spec == InitObj /\ [][Next]_vars

\* C1: no insertion, by the constructor or by update(), replaces the Link
\* stored under its relation: it fails with an error instead.
C1_DuplicateRelRejected ==
    op[1] \in {"Links", "update"} => ~overwrote

\* C9: Link.to_py() is (rel, the stored attributes other than rel) and leaves
\* the stored attributes as they are; Links.to_py() has, for every Link the
\* collection holds, the entry rel -> that Link's inner mapping, and no other.
C9_ToPy ==
    /\ op[1] = "Link.to_py" =>
           LET d == heap[op[2]]
           IN  /\ REL \in DOMAIN d /\ HREFN \in DOMAIN d
               /\ ret.rel = d[REL]
               /\ DOMAIN ret.attrs = DOMAIN d \ {REL}
               /\ \A k \in DOMAIN ret.attrs : ret.attrs[k] = d[k]
    /\ op[1] = "Links.to_py" =>
           /\ \A id \in Held :
                  /\ heap[id][REL] \in DOMAIN ret
                  /\ ret[heap[id][REL]] = DictWithout(heap[id], REL)
           /\ \A k \in DOMAIN ret : \E id \in Held : heap[id][REL] = k

\* C11: every Link the collection holds is stored under the key equal to that
\* Link's current rel; so links.rel(r) returns only a Link whose rel is r, and
\* links.to_py() has exactly len(links) entries.
C11_KeyIsCurrentRel ==
    /\ coll.made =>
           \A k \in DOMAIN coll.links : GetAttr(heap[coll.links[k]], REL).value = k
    /\ (op[1] = "Links.rel" /\ ret.k = "ref") =>
           GetAttr(heap[ret.l[1]], REL).value = op[2]
    /\ op[1] = "Links.to_py" =>
           Cardinality(DOMAIN ret) = Cardinality(DOMAIN coll.links)

----------------------------------------------------------------------------
(* hal.Link attribute access on one Link object *)

TITLE_CAP   == <<"T", "i", "t", "l", "e">>
TITLE_UPPER == <<"T", "I", "T", "L", "E">>
FOO         == <<"f", "o", "o">>

\* Stored values: strings and lists of strings of 0, 1 and 2 elements.
AttrValues ==
    { Str(<<>>), Str(<<"x">>), Str(<<"x", "y">>),
      List(<<>>), List(<< <<"x">> >>), List(<< <<"x">>, <<"y">> >>) }

CtorHrefs == {None, Str(<<>>), Str(<<"h">>)}
CtorRels  == {None, Str(<<"p">>), Str(<<"p", "q">>)}
KwKeys    == {TITLE, TYPE, HREFLANG, CONTENT_TYPE}
CtorKw    == {EmptyDict} \cup {DictSet(EmptyDict, k, v) : k \in KwKeys, v \in AttrValues}

SetKeys == {TITLE, HREFLANG, TITLE_STAR, CONTENT_TYPE, TITLE_CAP}
GetKeys == {HREFN, REL, TITLE, TYPE, HREFLANG, TITLE_STAR, CONTENT_TYPE,
            CONTENT_DASH, TITLE_UPPER, FOO}

\* link = Link(href, rel, **kw)
InitAttr ==
    /\ \E h \in CtorHrefs, r \in CtorRels, kw \in CtorKw :
           /\ src = [mode |-> "attr", groups |-> <<h, r, kw>>, sep |-> <<>>]
           /\ heap = <<LinkInit(h, r, kw)>>
    /\ ScannerInit("hal", <<>>)
    /\ pc = "new"
    /\ href = <<>>
    /\ attrs = <<>>
    /\ links = <<>>
    /\ err = NoError
    /\ coll = NoLinks
    /\ ret = None
    /\ op = <<"Link", 0>>
    /\ overwrote = FALSE

AttrFrame == UNCHANGED <<scanVars, src, href, attrs, links, coll, overwrote>>

\* setattr(link, key, value) on the new Link.
Attr_setattr ==
    /\ pc = "new"
    /\ \E key \in SetKeys, v \in AttrValues :
           /\ heap' = <<SetAttr(heap[1], key, v)>>
           /\ op' = <<"setattr", key>>
    /\ pc' = "set"
    /\ ret' = None
    /\ err' = NoError
    /\ AttrFrame

\* getattr(link, key): the value, or AttributeError.
Link_getattr ==
    /\ pc \in {"new", "set"}
    /\ \E key \in GetKeys :
           LET r == GetAttr(heap[1], key)
           IN  /\ ret' = r.value
               /\ err' = IF r.raised THEN Raised("AttributeError", GetAttrName(key))
                         ELSE NoError
               /\ op' = <<"getattr", key>>
    /\ pc' = IF pc = "new" THEN "read" ELSE "readset"
    /\ UNCHANGED heap
    /\ AttrFrame

NextAttr == Attr_setattr \/ Link_getattr

SpecAttr == InitAttr /\ [][NextAttr]_vars

\* The name a read is about: lowercased, '_' to '-', 'content-type' to 'type'.
ReadName(key) ==
    LET n == [i \in 1..Len(key) |-> IF LowerChar(key[i]) = "_" THEN "-" ELSE LowerChar(key[i])]
    IN  IF n = CONTENT_DASH THEN TYPE ELSE n

Recognized == {REL, ANCHOR, REV, MEDIA, TITLE, TYPE, HREFN, HREFLANG, TITLE_STAR}

NonEmptyStr(v) == v.k = "str" /\ v.s # <<>>

=============================================================================
